---- MODULE Spec2Model ----
(***************************************************************************)
(* TwitterScraper.py: the pagination engine (TwitterSearch.perform_search  *)
(* and execute_search), the counting sink of TwitterSearchImpl, and the    *)
(* date slicer TwitterSlicer with its thread pool, and parse_tweets called  *)
(* on its own on fragments whose stream items carry optional parts.        *)
(*                                                                         *)
(* Thread 0 is the caller's thread; threads 1..n_threads are the workers   *)
(* of the ThreadPoolExecutor.  Every thread that runs perform_search has   *)
(* its own locals (url, response, continue_search, min_tweet, tweets).     *)
(***************************************************************************)
EXTENDS Integers, Sequences, FiniteSets, TLC

\* ---------------------------------------------------------------- bounds
MaxPageLen == 2     \* stream-item nodes per items_html fragment
MaxAttempts == 3    \* requests of one run the endpoint answers freely; the result
                    \* set is exhausted then and every later reply is an empty page
MaxSinkCalls == 3   \* save_tweets calls in one run
MaxTweets == 2      \* largest max_tweets given to TwitterSearchImpl
MaxDays == 3        \* until is at most this many days after the day of since
TicksPerDay == 2    \* times of day a datetime can carry (0 is midnight)
MaxSlicerAttempts == 1   \* the same for one sub-query of the slicer

\* The interpreter's limit on nested execute_search frames (CPython:
\* sys.getrecursionlimit(), 1000 by default, less the frames already on the
\* stack), scaled down.  execute_search retries by calling itself.
RecursionLimit == 3

\* ------------------------------------------------------------ data model
NoId == 0                       \* the li has no data-item-id attribute
Ids == {1, 2}                   \* the tweet ids the endpoint uses

\* One li.js-stream-item node: its data-item-id and the state of each optional
\* part.  "absent": the element is not in the li; "noattr": it is there without
\* the attribute the code reads; "malformed": the attribute is there and is
\* no number; "ok": it is there with a well-formed value.
TextStates == {"absent", "ok"}                          \* p.tweet-text
UserStates == {"absent", "noattr", "ok"}                \* div.tweet
SpanStates == {"absent", "noattr", "malformed", "ok"}   \* timestamp and count spans
RichNodes ==
    [item_id : {NoId} \cup Ids, text : TextStates, user : UserStates,
     time : SpanStates, retweet : SpanStates, favorite : SpanStates]
\* a stream item with none of the optional parts
BareNode(id) ==
    [item_id |-> id, text |-> "absent", user |-> "absent", time |-> "absent",
     retweet |-> "absent", favorite |-> "absent"]
\* a stream item whose timestamp span has no data-time-ms
NoTimeAttrNode(id) == [BareNode(id) EXCEPT !.time = "noattr"]
\* the nodes of the pages the search endpoint serves in the runs below
Nodes == {BareNode(id) : id \in {NoId} \cup Ids}
\* the data-tweet-stat-count of a well-formed retweet / favorite count span
RetweetStat == 3
FavoriteStat == 5

\* All sequences over S of length 0..n
RECURSIVE SeqsUpTo(_, _)
SeqsUpTo(S, n) ==
    IF n = 0 THEN {<<>>}
    ELSE LET shorter == SeqsUpTo(S, n - 1)
         IN  shorter \cup {Append(s, x) : s \in {q \in shorter : Len(q) = n - 1}, x \in S}

Htmls == SeqsUpTo(Nodes, MaxPageLen)      \* items_html fragments

NoCursor == <<>>                          \* max_position=None / key absent
EndpointCursor == <<"POS", 1>>            \* a min_position the endpoint sends

\* What requests.get + json.loads hand back when neither raises: the HTTP
\* status of the reply and the decoded body.  is_null: the body is the JSON
\* value null (json.loads gives None).  has_items_html: the key is in the
\* decoded object.  items_null: items_html is JSON null.  min_position:
\* NoCursor when the object has no such key.
NullBody(st) ==
    [status |-> st, is_null |-> TRUE, has_items_html |-> FALSE, items_null |-> FALSE,
     items_html |-> <<>>, min_position |-> NoCursor]
DictBody(st, has, isnull, html, minpos) ==
    [status |-> st, is_null |-> FALSE, has_items_html |-> has, items_null |-> isnull,
     items_html |-> html, min_position |-> minpos]

StatusCodes == {200, 500}
Responses ==
    {NullBody(st) : st \in StatusCodes}
    \cup {DictBody(st, FALSE, FALSE, <<>>, NoCursor) : st \in StatusCodes}
    \cup {DictBody(st, TRUE, TRUE, <<>>, NoCursor) : st \in StatusCodes}
    \cup {DictBody(200, TRUE, FALSE, h, mp) : h \in Htmls, mp \in {NoCursor, EndpointCursor}}
    \cup {DictBody(500, TRUE, FALSE, h, NoCursor) : h \in {q \in Htmls : Len(q) <= 1}}
    \cup {DictBody(200, TRUE, FALSE, <<NoTimeAttrNode(1)>>, NoCursor)}

\* The replies the endpoint gives to the slicer's day queries: a page of two
\* records, an empty page, a body without items_html
SlicerResponses ==
    {DictBody(200, TRUE, FALSE, h, NoCursor) :
        h \in {<<>>, <<BareNode(1), BareNode(2)>>}}
    \cup {DictBody(200, FALSE, FALSE, <<>>, NoCursor)}

NoResponse == NullBody(0)                 \* local not yet assigned

\* A tweet dict.  obj names the str object held under 'tweet_id': the parse
\* that created it and the node it came from (Python's `is` compares these).
Tweet(id, text, user_id, user_screen_name, user_name, created_at, retweets, favorites, obj) ==
    [tweet_id |-> id, text |-> text, user_id |-> user_id,
     user_screen_name |-> user_screen_name, user_name |-> user_name,
     created_at |-> created_at, retweets |-> retweets, favorites |-> favorites,
     obj |-> obj]
\* lines 114-123: the dict as first built, every optional field at its default
DefaultTweet(id, obj) == Tweet(id, "None", "None", "None", "None", "None", 0, 0, obj)
NoTweet == DefaultTweet(NoId, <<0, 0>>)      \* min_tweet = None

NoMax == -1                               \* max_tweets = None

\* ------------------------------------------------------------ construct_url
construct_url(query, max_position) ==
    [f |-> "tweets", q |-> query, max_position |-> max_position]

\* ------------------------------------------------------------ parse_tweets
\* lines 126-150 for one li with a data-item-id: the exception its optional
\* parts make the code raise, "none" when the dict gets built.  The parts are
\* read in the order of the code and the first that raises ends the call.
\*   133, 135: user_details_div['data-user-id'] / ['data-name']
\*   140:      float(date_span['data-time-ms'])
\*   145:      int(retweet_span[0]['data-tweet-stat-count'])
\*   149-150:  the test is on len(retweet_span); favorite_span[0] is read
\*             whenever a retweet span was found.
NodeRaises(li) ==
    IF li.user = "noattr" THEN "KeyError"
    ELSE IF li.time = "noattr" THEN "KeyError"
    ELSE IF li.time = "malformed" THEN "ValueError"
    ELSE IF li.retweet = "noattr" THEN "KeyError"
    ELSE IF li.retweet = "malformed" THEN "ValueError"
    ELSE IF li.retweet = "absent" THEN "none"
    ELSE IF li.favorite = "absent" THEN "IndexError"
    ELSE IF li.favorite = "noattr" THEN "KeyError"
    ELSE IF li.favorite = "malformed" THEN "ValueError"
    ELSE "none"

\* lines 114-150 for one li on which nothing raises: the dict appended.
\* user_screen_name is filled from data-user-id (line 134).
TweetOf(li, obj) ==
    Tweet(li.item_id,
          IF li.text = "ok" THEN "text" ELSE "None",
          IF li.user = "ok" THEN "data-user-id" ELSE "None",
          IF li.user = "ok" THEN "data-user-id" ELSE "None",
          IF li.user = "ok" THEN "data-name" ELSE "None",
          IF li.time = "ok" THEN "data-time-ms" ELSE "None",
          IF li.retweet = "ok" THEN RetweetStat ELSE 0,
          IF li.retweet # "absent" /\ li.favorite = "ok" THEN FavoriteStat ELSE 0,
          obj)

\* The for loop from node i on: the exception of the first li that makes the
\* code raise, "none" when the loop runs to its end.  A li without a
\* data-item-id is skipped before any of its parts is read (lines 111-112).
RECURSIVE RaisedFrom(_, _)
RaisedFrom(items_html, i) ==
    IF i > Len(items_html) THEN "none"
    ELSE IF items_html[i].item_id # NoId /\ NodeRaises(items_html[i]) # "none"
    THEN NodeRaises(items_html[i])
    ELSE RaisedFrom(items_html, i + 1)

\* The for loop from node i on, when nothing raises: the dicts appended.
\* gen numbers the call: every call builds new str objects.
RECURSIVE ParseFrom(_, _, _)
ParseFrom(items_html, i, gen) ==
    IF i > Len(items_html) THEN <<>>
    ELSE IF items_html[i].item_id = NoId THEN ParseFrom(items_html, i + 1, gen)
    ELSE <<TweetOf(items_html[i], <<gen, i>>)>> \o ParseFrom(items_html, i + 1, gen)

\* The call: the exception raised, or "none" and the list returned.
parse_tweets(items_html, gen) ==
    IF RaisedFrom(items_html, 1) # "none"
    THEN [exc |-> RaisedFrom(items_html, 1), tweets |-> <<>>]
    ELSE [exc |-> "none", tweets |-> ParseFrom(items_html, 1, gen)]

\* The ids of a list of tweets, in order
TweetIds(tweets) == [i \in 1..Len(tweets) |-> tweets[i].tweet_id]

\* `a['tweet_id'] is not b['tweet_id']`: the same object is never "not
\* itself", different values are different objects, and two equal strings
\* built by different parses are one object only when the interpreter
\* shares them (CPython does for one-character strings).
IsNotOutcomes(a, b) ==
    IF a.obj = b.obj THEN {FALSE}
    ELSE IF a.tweet_id # b.tweet_id THEN {TRUE}
    ELSE {TRUE, FALSE}

\* ------------------------------------------------- TwitterSearchImpl.save_tweets
\* The for loop from tweet i on; gives the counter and the return value.
RECURSIVE ImplSaveFrom(_, _, _, _)
ImplSaveFrom(tweets, i, cnt, max) ==
    IF i > Len(tweets) THEN [counter |-> cnt, ret |-> TRUE]
    ELSE IF max # NoMax /\ cnt + 1 >= max THEN [counter |-> cnt + 1, ret |-> FALSE]
    ELSE ImplSaveFrom(tweets, i + 1, cnt + 1, max)

\* the limit tested once per call, after the whole page was counted
ImplSaveWholePage(tweets, cnt, max) ==
    [counter |-> cnt + Len(tweets), ret |-> ~(max # NoMax /\ cnt + Len(tweets) >= max)]

ImplSaveTweets(tweets, cnt, max) == ImplSaveFrom(tweets, 1, cnt, max)


\* The records of a decoded response: what parse_tweets makes of its
\* items_html, nothing when the body carries no fragment or parse_tweets raises.
HasFragment(resp) == ~resp.is_null /\ resp.has_items_html /\ ~resp.items_null
RecordsOf(resp) == IF HasFragment(resp) THEN parse_tweets(resp.items_html, 0).tweets ELSE <<>>

\* ------------------------------------------------------------------ state
Workers == 1..2                 \* the threads the executor can start
Threads == {0} \cup Workers      \* 0: the caller's thread
NoDate == -1
SearchQuery == [term |-> "Babylon 5", since |-> NoDate, until |-> NoDate]   \* no date suffix

VARIABLES
    cls,              \* "Impl" (TwitterSearchImpl) or "Slicer" (TwitterSlicer)
    max_tweets,       \* self.max_tweets (NoMax for None)
    counter,          \* self.counter
    pc,               \* per thread: where it is in the code
    query,            \* per thread: perform_search's argument
    url,              \* per thread: local url
    response,         \* per thread: local response
    continue_search,  \* per thread: local continue_search
    min_tweet,        \* per thread: local min_tweet
    tweets,           \* per thread: local tweets
    depth,            \* per thread: nested execute_search frames above the first
    exc,              \* per thread: the exception that ended perform_search
    \* what has happened in the thread's current run of perform_search
    nAttempts,        \* requests.get calls
    iter,             \* calls of parse_tweets (loop iterations)
    callLog,          \* urls requested by the current call of execute_search
    errSleeps,        \* sleep(error_delay) calls in the current call of execute_search
    rateSleeps,       \* sleep(rate_delay) calls
    nFetched,         \* responses execute_search has returned
    nPages,           \* those of them with at least one record
    served,           \* records in the responses returned, all together
    anchor,           \* id of the first record of the first response with records
    forwards,         \* save_tweets calls made with the records of the current response
    nSink,            \* save_tweets calls
    lastSink,         \* the last save_tweets call: the ids passed, the value returned
    \* TwitterSlicer
    since,            \* self.since, a datetime in ticks
    until,            \* self.until
    n_threads,        \* self.n_threads
    n_days,           \* search's local n_days
    day,              \* search's loop variable i
    started,          \* worker threads the executor has started
    queue,            \* the executor's work queue: day queries not yet taken
    submitted,        \* every day query handed to tp.submit, in order
    runs,             \* per day query submitted: how often its perform_search was
                      \* started, has ended, and has ended by an exception
    passed,           \* records passed to save_tweets, all calls together
    reg,              \* per thread: the value of self.counter + 1 being computed
    j,                \* per thread: tweets the running save_tweets call has counted
    \* a call of parse_tweets on its own
    fragment,         \* its argument items_html
    extracted,        \* what it returned or raised
    xpc               \* "call" before the call, "returned" / "raised" after it

locals == <<query, url, response, continue_search, min_tweet, tweets, depth, exc>>
fetchHist == <<nAttempts, callLog, errSleeps, nFetched, nPages, served, anchor>>
sinkHist == <<nSink, lastSink>>
config == <<cls, max_tweets, since, until, n_threads>>
pool == <<n_days, day, started, queue, submitted, runs, passed, reg, j>>
extract == <<fragment, extracted, xpc>>
vars == <<config, extract, pool, counter, pc, locals, iter, rateSleeps, forwards, fetchHist,
          sinkHist>>

\* What the endpoint may answer and how many requests it takes, per scenario
Endpoint(c) == IF c = "Impl" THEN Responses ELSE SlicerResponses
AttemptBound(c) == IF c = "Impl" THEN MaxAttempts ELSE MaxSlicerAttempts
EndOfResults == DictBody(200, TRUE, FALSE, <<>>, NoCursor)
Replies(c, n) == IF n < AttemptBound(c) THEN Endpoint(c) ELSE {EndOfResults}

NoSink == [ids |-> <<>>, ret |-> TRUE]

\* ------------------------------------------------------------ perform_search
\* lines 45-48: the locals are set and execute_search(url) is called.
PerformSearchStart(t) ==
    /\ pc[t] = "call"
    /\ url' = [url EXCEPT ![t] = construct_url(query[t], NoCursor)]
    /\ continue_search' = [continue_search EXCEPT ![t] = TRUE]
    /\ min_tweet' = [min_tweet EXCEPT ![t] = NoTweet]
    /\ response' = [response EXCEPT ![t] = NoResponse]
    /\ tweets' = [tweets EXCEPT ![t] = <<>>]
    /\ depth' = [depth EXCEPT ![t] = 0]
    /\ exc' = [exc EXCEPT ![t] = "none"]
    /\ nAttempts' = [nAttempts EXCEPT ![t] = 0]
    /\ iter' = [iter EXCEPT ![t] = 0]
    /\ callLog' = [callLog EXCEPT ![t] = <<>>]
    /\ errSleeps' = [errSleeps EXCEPT ![t] = 0]
    /\ rateSleeps' = [rateSleeps EXCEPT ![t] = 0]
    /\ nFetched' = [nFetched EXCEPT ![t] = 0]
    /\ nPages' = [nPages EXCEPT ![t] = 0]
    /\ served' = [served EXCEPT ![t] = 0]
    /\ anchor' = [anchor EXCEPT ![t] = NoId]
    /\ forwards' = [forwards EXCEPT ![t] = 0]
    /\ nSink' = [nSink EXCEPT ![t] = 0]
    /\ lastSink' = [lastSink EXCEPT ![t] = NoSink]
    /\ pc' = [pc EXCEPT ![t] = "exec"]
    /\ UNCHANGED <<config, extract, pool, counter, query>>

\* execute_search, lines 80-89: one requests.get(url) and json.loads.  The
\* endpoint decides: either of the two raises (connection error, timeout,
\* body that is no JSON), or a decoded body comes back and is returned through
\* all the nested frames to perform_search (line 48 or line 72).  The status
\* of the reply is not looked at.
ExecuteSearchTry(t) ==
    /\ pc[t] = "exec"
    /\ nAttempts' = [nAttempts EXCEPT ![t] = @ + 1]
    /\ callLog' = [callLog EXCEPT ![t] = Append(@, url[t])]
    /\ \/ /\ nAttempts[t] < AttemptBound(cls)
          /\ pc' = [pc EXCEPT ![t] = "except"]
          /\ UNCHANGED <<response, depth, nFetched, nPages, served, anchor, forwards>>
       \/ \E data \in Replies(cls, nAttempts[t]) :
            /\ response' = [response EXCEPT ![t] = data]
            /\ nFetched' = [nFetched EXCEPT ![t] = @ + 1]
            /\ nPages' = [nPages EXCEPT ![t] = IF Len(RecordsOf(data)) > 0 THEN @ + 1 ELSE @]
            /\ served' = [served EXCEPT ![t] = @ + Len(RecordsOf(data))]
            /\ anchor' = [anchor EXCEPT ![t] =
                             IF @ = NoId /\ Len(RecordsOf(data)) > 0
                             THEN RecordsOf(data)[1].tweet_id ELSE @]
            /\ forwards' = [forwards EXCEPT ![t] = 0]
            /\ depth' = [depth EXCEPT ![t] = 0]
            /\ pc' = [pc EXCEPT ![t] = "loop"]
    /\ UNCHANGED <<config, extract, pool, counter, query, url, continue_search, min_tweet,
                   tweets, exc, iter, errSleeps, rateSleeps, sinkHist>>

\* execute_search, lines 93-97: log, sleep(error_delay), then the recursive
\* call self.execute_search(url).  The call is made inside the except block,
\* so the RecursionError of one frame too many is caught by no frame and
\* leaves execute_search and perform_search.
ExecuteSearchExcept(t) ==
    /\ pc[t] = "except"
    /\ errSleeps' = [errSleeps EXCEPT ![t] = @ + 1]
    /\ IF depth[t] + 1 >= RecursionLimit
       THEN /\ pc' = [pc EXCEPT ![t] = "raised"]
            /\ exc' = [exc EXCEPT ![t] = "RecursionError"]
            /\ UNCHANGED depth
       ELSE /\ pc' = [pc EXCEPT ![t] = "exec"]
            /\ depth' = [depth EXCEPT ![t] = @ + 1]
            /\ UNCHANGED exc
    /\ UNCHANGED <<config, extract, pool, counter, query, url, response, continue_search,
                   min_tweet, tweets, nAttempts, iter, callLog, rateSleeps, nFetched,
                   nPages, served, anchor, forwards, sinkHist>>

\* line 53 without the break: an empty page is handled like any other
PageIsEmptyNeverBreaks(parsed) == FALSE

\* line 53: if len(tweets) == 0
PageIsEmpty(parsed) == Len(parsed) = 0

\* lines 49-58: the while test, parse_tweets, the empty-page break, min_tweet.
\* The test is evaluated left to right: response['items_html'] is looked up
\* only when response is not None and continue_search holds, and raises
\* KeyError when the decoded object has no such key.
LoopHead(t) ==
    /\ pc[t] = "loop"
    /\ IF response[t].is_null \/ ~continue_search[t]
       THEN /\ pc' = [pc EXCEPT ![t] = "done"]
            /\ UNCHANGED <<exc, tweets, min_tweet, iter>>
       ELSE IF ~response[t].has_items_html
       THEN /\ pc' = [pc EXCEPT ![t] = "raised"]
            /\ exc' = [exc EXCEPT ![t] = "KeyError"]
            /\ UNCHANGED <<tweets, min_tweet, iter>>
       ELSE IF response[t].items_null
       THEN /\ pc' = [pc EXCEPT ![t] = "done"]
            /\ UNCHANGED <<exc, tweets, min_tweet, iter>>
       ELSE LET result == parse_tweets(response[t].items_html, iter[t] + 1)
                parsed == result.tweets
            IN  /\ iter' = [iter EXCEPT ![t] = @ + 1]
                /\ IF result.exc # "none"
                   THEN \* line 50: parse_tweets raised, nothing is assigned
                        /\ pc' = [pc EXCEPT ![t] = "raised"]
                        /\ exc' = [exc EXCEPT ![t] = result.exc]
                        /\ UNCHANGED <<tweets, min_tweet>>
                   ELSE IF PageIsEmpty(parsed)
                   THEN /\ tweets' = [tweets EXCEPT ![t] = parsed]
                        /\ pc' = [pc EXCEPT ![t] = "done"]
                        /\ UNCHANGED <<min_tweet, exc>>
                   ELSE IF min_tweet[t] = NoTweet /\ Len(parsed) = 0
                   THEN \* line 58: tweets[0] of an empty list
                        /\ tweets' = [tweets EXCEPT ![t] = parsed]
                        /\ pc' = [pc EXCEPT ![t] = "raised"]
                        /\ exc' = [exc EXCEPT ![t] = "IndexError"]
                        /\ UNCHANGED min_tweet
                   ELSE /\ tweets' = [tweets EXCEPT ![t] = parsed]
                        /\ pc' = [pc EXCEPT ![t] = "save"]
                        /\ min_tweet' = [min_tweet EXCEPT ![t] =
                                            IF @ = NoTweet THEN parsed[1] ELSE @]
                        /\ UNCHANGED exc
    /\ UNCHANGED <<config, extract, pool, counter, query, url, response, continue_search,
                   depth, rateSleeps, forwards, fetchHist, sinkHist>>

\* line 60 with TwitterSearchImpl.save_tweets, lines 198-216.
ImplSave(t) ==
    /\ pc[t] = "save"
    /\ cls = "Impl"
    /\ nSink[t] < MaxSinkCalls
    /\ LET r == ImplSaveTweets(tweets[t], counter, max_tweets)
       IN  /\ counter' = r.counter
           /\ continue_search' = [continue_search EXCEPT ![t] = r.ret]
           /\ lastSink' = [lastSink EXCEPT ![t] = [ids |-> TweetIds(tweets[t]), ret |-> r.ret]]
    /\ nSink' = [nSink EXCEPT ![t] = @ + 1]
    /\ forwards' = [forwards EXCEPT ![t] = @ + 1]
    /\ pc' = [pc EXCEPT ![t] = "tail"]
    /\ UNCHANGED <<config, extract, pool, query, url, response, min_tweet, tweets, depth, exc,
                   iter, rateSleeps, fetchHist>>

\* line 68 alone: the endpoint's min_position is not looked at
NextPositionSynthesizedOnly(resp, max_tweet, min_twt) ==
    <<"TWEET", max_tweet.tweet_id, min_twt.tweet_id>>

\* line 66 / line 68: the cursor of the next request
NextPosition(resp, max_tweet, min_twt) ==
    IF resp.min_position # NoCursor
    THEN resp.min_position
    ELSE <<"TWEET", max_tweet.tweet_id, min_twt.tweet_id>>

\* lines 63-69: max_tweet, the identity test, the next url.  When the test
\* fails nothing is fetched and the loop goes round with the same response.
LoopTail(t) ==
    /\ pc[t] = "tail"
    /\ IF Len(tweets[t]) = 0
       THEN \* line 63: tweets[-1] of an empty list
            /\ pc' = [pc EXCEPT ![t] = "raised"]
            /\ exc' = [exc EXCEPT ![t] = "IndexError"]
            /\ UNCHANGED url
       ELSE LET max_tweet == tweets[t][Len(tweets[t])]
            IN  /\ \E isnot \in IsNotOutcomes(min_tweet[t], max_tweet) :
                     IF isnot
                     THEN /\ url' = [url EXCEPT ![t] =
                                       construct_url(query[t],
                                           NextPosition(response[t], max_tweet, min_tweet[t]))]
                          /\ pc' = [pc EXCEPT ![t] = "rate"]
                     ELSE /\ pc' = [pc EXCEPT ![t] = "loop"]
                          /\ UNCHANGED url
                /\ UNCHANGED exc
    /\ UNCHANGED <<config, extract, pool, counter, query, response, continue_search, min_tweet,
                   tweets, depth, iter, rateSleeps, forwards, fetchHist, sinkHist>>

\* lines 71-72: sleep(rate_delay), then execute_search(url) is called.
RateSleep(t) ==
    /\ pc[t] = "rate"
    /\ rateSleeps' = [rateSleeps EXCEPT ![t] = @ + 1]
    /\ callLog' = [callLog EXCEPT ![t] = <<>>]
    /\ errSleeps' = [errSleeps EXCEPT ![t] = 0]
    /\ depth' = [depth EXCEPT ![t] = 0]
    /\ pc' = [pc EXCEPT ![t] = "exec"]
    /\ UNCHANGED <<config, extract, pool, counter, query, url, response, continue_search,
                   min_tweet, tweets, exc, nAttempts, iter, nFetched, nPages, served,
                   anchor, forwards, sinkHist>>

\* ------------------------------------------- __main__, lines 268-269: one search
\* twit = TwitterSearchImpl(rate_delay, error_delay, max_tweets); twit.search(q)
InitLocals ==
    /\ query = [t \in Threads |-> SearchQuery]
    /\ url = [t \in Threads |-> construct_url(SearchQuery, NoCursor)]
    /\ response = [t \in Threads |-> NoResponse]
    /\ continue_search = [t \in Threads |-> TRUE]
    /\ min_tweet = [t \in Threads |-> NoTweet]
    /\ tweets = [t \in Threads |-> <<>>]
    /\ depth = [t \in Threads |-> 0]
    /\ exc = [t \in Threads |-> "none"]
    /\ nAttempts = [t \in Threads |-> 0]
    /\ iter = [t \in Threads |-> 0]
    /\ callLog = [t \in Threads |-> <<>>]
    /\ errSleeps = [t \in Threads |-> 0]
    /\ rateSleeps = [t \in Threads |-> 0]
    /\ nFetched = [t \in Threads |-> 0]
    /\ nPages = [t \in Threads |-> 0]
    /\ served = [t \in Threads |-> 0]
    /\ anchor = [t \in Threads |-> NoId]
    /\ forwards = [t \in Threads |-> 0]
    /\ nSink = [t \in Threads |-> 0]
    /\ lastSink = [t \in Threads |-> NoSink]

InitPool ==
    /\ n_days = 0
    /\ day = 0
    /\ started = 0
    /\ queue = <<>>
    /\ submitted = <<>>
    /\ runs = <<>>
    /\ passed = 0
    /\ reg = [t \in Threads |-> 0]
    /\ j = [t \in Threads |-> 0]

\* no call of parse_tweets on its own
InitExtract ==
    /\ fragment = <<>>
    /\ extracted = [exc |-> "none", tweets |-> <<>>]
    /\ xpc = "idle"

Init ==
    /\ cls = "Impl"
    /\ max_tweets \in {NoMax} \cup (1..MaxTweets)
    /\ since = 0
    /\ until = 0
    /\ n_threads = 0
    /\ counter = 0
    /\ pc = [t \in Threads |-> IF t = 0 THEN "call" ELSE "idle"]
    /\ InitLocals
    /\ InitPool
    /\ InitExtract

Next ==
    \/ PerformSearchStart(0)
    \/ ExecuteSearchTry(0)
    \/ ExecuteSearchExcept(0)
    \/ LoopHead(0)
    \/ ImplSave(0)
    \/ LoopTail(0)
    \/ RateSleep(0)

Spec == Init /\ [][Next]_vars


\* ------------------------------------------------------------ TwitterSlicer
\* strftime("%Y-%m-%d"): the date a datetime falls on
DateOf(dt) == dt \div TicksPerDay
\* datetime + timedelta(days=n)
PlusDays(dt, n) == dt + n * TicksPerDay
\* (until - since).days: timedelta keeps whole days, rounded down
DaysBetween(a, b) == (b - a) \div TicksPerDay
\* lines 237-240: the query of day index k
DayQuery(term, snc, k) ==
    [term |-> term, since |-> DateOf(PlusDays(snc, k)), until |-> DateOf(PlusDays(snc, k + 1))]

\* the place of a day query among those submitted (no two are equal)
RunOf(q) == CHOOSE k \in 1..Len(submitted) : submitted[k] = q
NoRuns == [starts |-> 0, ends |-> 0, raised |-> 0]

\* tp.submit starts a new worker thread only while fewer than max_workers
\* have been started, however many work items wait
StartedAfterSubmitNoLimit(s, n) == IF s < Cardinality(Workers) THEN s + 1 ELSE s

\* line 241, tp.submit: a worker thread is started while fewer than
\* max_workers have been
StartedAfterSubmit(s, n) == IF s < n THEN s + 1 ELSE s

\* tp.shutdown(wait=False): shutdown returns at once
PoolIdleNotAwaited == TRUE

\* line 242, tp.shutdown(wait=True): the queue is drained and every worker
\* thread has ended
PoolIdle == queue = <<>> /\ \A w \in 1..started : pc[w] = "idle"

\* a worker whose work item raised dies with it
WorkItemOverOnReturnOnly(p) == p = "done"

\* the executor's worker runs the work item inside try/except: the item is
\* over when perform_search has returned or has raised
WorkItemOver(p) == p \in {"done", "raised"}

\* lines 234-235: n_days and the executor
SlicerSearchStart ==
    /\ pc[0] = "search"
    /\ n_days' = DaysBetween(since, until)
    /\ day' = 0
    /\ pc' = [pc EXCEPT ![0] = "submit"]
    /\ UNCHANGED <<config, extract, started, queue, submitted, runs, passed, reg, j, counter,
                   locals, iter,
                   rateSleeps, forwards, fetchHist, sinkHist>>

\* lines 236-241: one round of the for loop.  tp.submit queues the work item
\* and starts a worker thread while fewer than max_workers are running.
SlicerSubmit ==
    /\ pc[0] = "submit"
    /\ day < n_days
    /\ queue' = Append(queue, DayQuery(SearchQuery.term, since, day))
    /\ submitted' = Append(submitted, DayQuery(SearchQuery.term, since, day))
    /\ runs' = Append(runs, NoRuns)
    /\ started' = StartedAfterSubmit(started, n_threads)
    /\ day' = day + 1
    /\ UNCHANGED <<config, extract, n_days, passed, reg, j, counter, pc, locals, iter, rateSleeps,
                   forwards, fetchHist, sinkHist>>

\* line 242: range(0, n_days) is exhausted; tp.shutdown(wait=True) is called.
SlicerShutdown ==
    /\ pc[0] = "submit"
    /\ day >= n_days
    /\ pc' = [pc EXCEPT ![0] = "shutdown"]
    /\ UNCHANGED <<config, extract, pool, counter, locals, iter, rateSleeps, forwards, fetchHist,
                   sinkHist>>

\* line 242: shutdown returns when the queue is drained and every worker
\* thread has ended; search returns.
SlicerReturn ==
    /\ pc[0] = "shutdown"
    /\ PoolIdle
    /\ pc' = [pc EXCEPT ![0] = "returned"]
    /\ UNCHANGED <<config, extract, pool, counter, locals, iter, rateSleeps, forwards, fetchHist,
                   sinkHist>>

\* A worker thread takes the next work item: self.perform_search(day_query).
WorkerTake(w) ==
    /\ w \in 1..started
    /\ pc[w] = "idle"
    /\ queue # <<>>
    /\ query' = [query EXCEPT ![w] = Head(queue)]
    /\ queue' = Tail(queue)
    /\ runs' = [runs EXCEPT ![RunOf(Head(queue))].starts = @ + 1]
    /\ pc' = [pc EXCEPT ![w] = "call"]
    /\ UNCHANGED <<config, extract, n_days, day, started, submitted, passed, reg, j, counter, url,
                   response, continue_search, min_tweet, tweets, depth, exc, iter,
                   rateSleeps, forwards, fetchHist, sinkHist>>

\* perform_search has returned or raised; the executor stores the outcome in
\* the future and the worker goes back to the queue.  The frame of
\* perform_search is gone, and its locals with it.
WorkerFinish(w) ==
    /\ w \in 1..started
    /\ WorkItemOver(pc[w])
    /\ runs' = [runs EXCEPT ![RunOf(query[w])] =
                    [starts |-> @.starts, ends |-> @.ends + 1,
                     raised |-> IF pc[w] = "raised" THEN @.raised + 1 ELSE @.raised]]
    /\ pc' = [pc EXCEPT ![w] = "idle"]
    /\ query' = [query EXCEPT ![w] = SearchQuery]
    /\ url' = [url EXCEPT ![w] = construct_url(SearchQuery, NoCursor)]
    /\ response' = [response EXCEPT ![w] = NoResponse]
    /\ continue_search' = [continue_search EXCEPT ![w] = TRUE]
    /\ min_tweet' = [min_tweet EXCEPT ![w] = NoTweet]
    /\ tweets' = [tweets EXCEPT ![w] = <<>>]
    /\ depth' = [depth EXCEPT ![w] = 0]
    /\ exc' = [exc EXCEPT ![w] = "none"]
    /\ nAttempts' = [nAttempts EXCEPT ![w] = 0]
    /\ iter' = [iter EXCEPT ![w] = 0]
    /\ callLog' = [callLog EXCEPT ![w] = <<>>]
    /\ errSleeps' = [errSleeps EXCEPT ![w] = 0]
    /\ rateSleeps' = [rateSleeps EXCEPT ![w] = 0]
    /\ nFetched' = [nFetched EXCEPT ![w] = 0]
    /\ nPages' = [nPages EXCEPT ![w] = 0]
    /\ served' = [served EXCEPT ![w] = 0]
    /\ anchor' = [anchor EXCEPT ![w] = NoId]
    /\ forwards' = [forwards EXCEPT ![w] = 0]
    /\ nSink' = [nSink EXCEPT ![w] = 0]
    /\ lastSink' = [lastSink EXCEPT ![w] = NoSink]
    /\ UNCHANGED <<config, extract, n_days, day, started, queue, submitted, passed, reg, j,
                   counter>>

\* TwitterSlicer.save_tweets, line 251, first half of self.counter += 1: the
\* attribute is read.  Nothing keeps another thread from running before the
\* result is stored.
SlicerSaveLoad(t) ==
    /\ pc[t] = "save"
    /\ cls = "Slicer"
    /\ j[t] < Len(tweets[t])
    /\ j[t] = 0 => nSink[t] < MaxSinkCalls
    /\ reg' = [reg EXCEPT ![t] = counter + 1]
    /\ pc' = [pc EXCEPT ![t] = "store"]
    /\ UNCHANGED <<config, extract, n_days, day, started, queue, submitted, runs, passed, j,
                   counter, locals,
                   iter, rateSleeps, forwards, fetchHist, sinkHist>>

\* line 251, second half: the sum is stored into self.counter.
SlicerSaveStore(t) ==
    /\ pc[t] = "store"
    /\ counter' = reg[t]
    /\ j' = [j EXCEPT ![t] = @ + 1]
    /\ pc' = [pc EXCEPT ![t] = "save"]
    /\ UNCHANGED <<config, extract, n_days, day, started, queue, submitted, runs, passed, reg,
                   locals, iter,
                   rateSleeps, forwards, fetchHist, sinkHist>>

\* line 257 and line 60: the for loop is over, save_tweets returns True.
SlicerSaveReturn(t) ==
    /\ pc[t] = "save"
    /\ cls = "Slicer"
    /\ j[t] = Len(tweets[t])
    /\ continue_search' = [continue_search EXCEPT ![t] = TRUE]
    /\ passed' = passed + Len(tweets[t])
    /\ j' = [j EXCEPT ![t] = 0]
    /\ nSink' = [nSink EXCEPT ![t] = @ + 1]
    /\ forwards' = [forwards EXCEPT ![t] = @ + 1]
    /\ lastSink' = [lastSink EXCEPT ![t] = [ids |-> TweetIds(tweets[t]), ret |-> TRUE]]
    /\ pc' = [pc EXCEPT ![t] = "tail"]
    /\ UNCHANGED <<config, extract, n_days, day, started, queue, submitted, runs, reg, counter,
                   query, url,
                   response, min_tweet, tweets, depth, exc, iter, rateSleeps, fetchHist>>

\* __main__, lines 276-278: twitSlice = TwitterSlicer(rate_delay, error_delay,
\* since, until, n_threads); twitSlice.search(q).  since is taken on day 0.
SlicerInit ==
    /\ cls = "Slicer"
    /\ max_tweets = NoMax
    /\ since \in 0..(TicksPerDay - 1)
    /\ until \in 0..(MaxDays * TicksPerDay)
    /\ n_threads \in Workers
    /\ counter = 0
    /\ pc = [t \in Threads |-> IF t = 0 THEN "search" ELSE "idle"]
    /\ InitLocals
    /\ InitPool
    /\ InitExtract

SlicerNext ==
    \/ SlicerSearchStart
    \/ SlicerSubmit
    \/ SlicerShutdown
    \/ SlicerReturn
    \/ \E w \in Workers :
        \/ WorkerTake(w)
        \/ WorkerFinish(w)
        \/ PerformSearchStart(w)
        \/ ExecuteSearchTry(w)
        \/ ExecuteSearchExcept(w)
        \/ LoopHead(w)
        \/ SlicerSaveLoad(w)
        \/ SlicerSaveStore(w)
        \/ SlicerSaveReturn(w)
        \/ LoopTail(w)
        \/ RateSleep(w)

SpecSlicer == SlicerInit /\ [][SlicerNext]_vars

\* ----------------------------------------------- parse_tweets called on its own
\* The fragments given to it: up to MaxPageLen stream items, one of which
\* (the k-th, none for k = 0) may carry optional parts in any state.
WithRichNode(h, k, li) == IF k \in 1..Len(h) THEN [h EXCEPT ![k] = li] ELSE h

NotExtracted == [exc |-> "none", tweets |-> <<>>]

\* tweets = TwitterSearch.parse_tweets(items_html)
ParseCall ==
    /\ xpc = "call"
    /\ extracted' = parse_tweets(fragment, 1)
    /\ xpc' = IF parse_tweets(fragment, 1).exc = "none" THEN "returned" ELSE "raised"
    /\ UNCHANGED <<config, pool, counter, pc, locals, iter, rateSleeps, forwards, fetchHist,
                   sinkHist, fragment>>

ParseInit ==
    /\ \E h \in Htmls, k \in 0..MaxPageLen, li \in RichNodes :
            fragment = WithRichNode(h, k, li)
    /\ extracted = NotExtracted
    /\ xpc = "call"
    /\ cls = "Impl"
    /\ max_tweets = NoMax
    /\ since = 0
    /\ until = 0
    /\ n_threads = 0
    /\ counter = 0
    /\ pc = [t \in Threads |-> "idle"]
    /\ InitLocals
    /\ InitPool

ParseNext == ParseCall

SpecParse == ParseInit /\ [][ParseNext]_vars

\* =================================================================== claims
\* t is inside perform_search (or has left it)
Running(t) == pc[t] \notin {"idle", "call"}
\* execute_search has returned a response to perform_search in this run
Returned(t) == Running(t) /\ nFetched[t] > 0
\* a decoded response whose items_html is null, empty, or holds no record
\* (no stream item with a data-item-id)
NoRecordsPage(resp) ==
    /\ ~resp.is_null
    /\ resp.has_items_html
    /\ \/ resp.items_null
       \/ \A k \in 1..Len(resp.items_html) : resp.items_html[k].item_id = NoId
\* the sink of this run always returns True
SinkAlwaysTrue == cls = "Slicer" \/ max_tweets = NoMax

\* C1: with a sink that always returns True, every non-empty page the endpoint
\* serves is passed to save_tweets exactly once, with its records in the order
\* returned, pages in the order served; after n non-empty pages and an empty
\* one the run is over with n sink calls and n+1 fetches.
C1_EachPageForwardedOnce ==
    \A t \in Threads :
        (Running(t) /\ SinkAlwaysTrue) =>
            /\ forwards[t] <= 1
            /\ nSink[t] <= nPages[t]
            /\ (forwards[t] >= 1 => lastSink[t].ids = TweetIds(RecordsOf(response[t])))
            /\ (pc[t] = "done" /\ NoRecordsPage(response[t]) /\ nPages[t] = nFetched[t] - 1)
                   => nSink[t] = nPages[t]

\* C2: once save_tweets has returned False the run goes to Done at once: it is
\* never again calling the sink, sleeping rate_delay or inside execute_search.
C2_NoFetchAfterSinkFalse ==
    \A t \in Threads :
        (Running(t) /\ ~continue_search[t]) => pc[t] \in {"tail", "loop", "done"}

\* C3: whenever execute_search has returned a response whose items_html is
\* null, empty or yields no record, perform_search is at the loop test or
\* Done: the sink is not called for that page, nothing more is fetched, no
\* exception is raised, and the loop test can always be taken.
C3_EmptyPageTerminates ==
    \A t \in Threads :
        (Returned(t) /\ NoRecordsPage(response[t])) =>
            /\ pc[t] \in {"loop", "done"}
            /\ exc[t] = "none"
            /\ forwards[t] = 0
            /\ (pc[t] = "loop" => ENABLED LoopHead(t))

\* C3 happens: a run that processed a page ends on a later page of
\* stream items none of which is a record.
C3_Witness ==
    /\ pc[0] = "done"
    /\ nFetched[0] >= 2
    /\ nSink[0] >= 1
    /\ NoRecordsPage(response[0])
    /\ Len(response[0].items_html) > 0

\* The retry bookkeeping of one call of execute_search that has returned:
\* k failed requests, k sleeps, k+1 requests, all for the same url.
RetryAccounting(t) ==
    /\ Len(callLog[t]) = errSleeps[t] + 1
    /\ \A i \in 1..Len(callLog[t]) : callLog[t][i] = url[t]
\* The page that call returned goes to the sink exactly once.
ForwardedExactlyOnce(t) ==
    /\ forwards[t] <= 1
    /\ (pc[t] \in {"rate", "done"} /\ Len(RecordsOf(response[t])) > 0) => forwards[t] = 1

\* C4: when execute_search fails k times and then succeeds it has slept k
\* times and made k+1 requests for the same url, and perform_search passes the
\* page it returned to the sink exactly once.  Stated for the calls that did
\* retry (k >= 1).
C4_RetriesThenForwardedOnce ==
    \A t \in Threads :
        (Returned(t) /\ pc[t] \in {"loop", "save", "tail", "done"} /\ errSleeps[t] >= 1) =>
            RetryAccounting(t) /\ ForwardedExactlyOnce(t)

\* The part of C4 about the retries alone, for every k >= 0.
RetryAccountingHolds ==
    \A t \in Threads :
        (Returned(t) /\ pc[t] \in {"loop", "save", "tail", "done"}) => RetryAccounting(t)

\* C5: execute_search never gives up: no number of consecutive failures makes
\* it leave by an exception instead of making another attempt.
C5_ExecuteSearchNeverRaises ==
    \A t \in Threads : ~(pc[t] = "raised" /\ exc[t] = "RecursionError")

\* C6: a reply with a non-2xx status is never returned to perform_search.
C6_Non2xxNeverReturned ==
    \A t \in Threads : Returned(t) => response[t].status \in 200..299

\* C7: a decoded object without an items_html member ends the run in Done,
\* with no exception.
C7_AbsentItemsHtmlIsDone ==
    \A t \in Threads :
        (Returned(t) /\ ~response[t].is_null /\ ~response[t].has_items_html) =>
            pc[t] \in {"loop", "done"} /\ exc[t] = "none"

\* C8: when a run of TwitterSearchImpl with max_tweets = None has ended in
\* Done, counter is the number of records in the pages the endpoint served.
C8_CountIsRecordsServed ==
    (cls = "Impl" /\ max_tweets = NoMax /\ pc[0] = "done") => counter = served[0]

\* the dates some submitted day query covers
DatesCovered ==
    {d \in 0..(MaxDays + 1) : \E k \in 1..Len(submitted) :
        submitted[k].since <= d /\ d < submitted[k].until}

\* C9: for since < until, once every sub-query is submitted, the k-th one is
\* the term with the single day [date of since + k-1, date of since + k), and
\* together they cover exactly the dates from that of since up to, not
\* including, that of until, whatever the times of day of since and until.
C9_DayQueriesCoverRange ==
    (cls = "Slicer" /\ since < until /\ pc[0] \in {"shutdown", "returned"}) =>
        /\ \A k \in 1..Len(submitted) :
              submitted[k] = [term |-> SearchQuery.term,
                              since |-> DateOf(since) + k - 1,
                              until |-> DateOf(since) + k]
        /\ DatesCovered = DateOf(since)..(DateOf(until) - 1)

\* C10: when TwitterSlicer.search has returned, the shared counter is the
\* number of records passed to save_tweets by all sub-queries together.
C10_CounterCountsEveryRecord ==
    (cls = "Slicer" /\ pc[0] = "returned") => counter = passed

\* C11: TwitterSlicer.search is a barrier.  No sub-query's perform_search is
\* ever started twice or ended more often than started, and when search has
\* returned one sub-query per whole day was submitted, each one's
\* perform_search was started exactly once and has ended, and no worker is
\* still inside one.
C11_SearchIsBarrier ==
    cls = "Slicer" =>
        /\ Len(runs) = Len(submitted)
        /\ \A k \in 1..Len(runs) : runs[k].starts <= 1 /\ runs[k].ends <= runs[k].starts
        /\ pc[0] = "returned" =>
              /\ Len(submitted) = (IF n_days > 0 THEN n_days ELSE 0)
              /\ \A k \in 1..Len(runs) : runs[k].starts = 1 /\ runs[k].ends = 1
              /\ \A w \in Workers : pc[w] = "idle"

\* C11 happens: search has returned from three sub-queries run by two workers,
\* some of which passed records to save_tweets.
C11_Witness ==
    /\ cls = "Slicer"
    /\ pc[0] = "returned"
    /\ Len(submitted) = 3
    /\ n_threads = 2
    /\ passed > 0

\* the workers that are inside perform_search
Busy == {w \in Workers : pc[w] # "idle"}

\* C12: with pool size n_threads at most n_threads pagination loops are in
\* progress at any moment, however many sub-queries wait, and of one
\* sub-query's loop at most one thread is inside execute_search.
C12_AtMostPoolSizeLoops ==
    cls = "Slicer" =>
        /\ Cardinality(Busy) <= n_threads
        /\ \A k \in 1..Len(submitted) :
              Cardinality({w \in Busy : query[w] = submitted[k]
                                         /\ pc[w] \in {"exec", "except"}}) <= 1

\* C12 happens: a pool of one thread is inside execute_search for one
\* sub-query while two more wait in the queue.
C12_Witness ==
    /\ cls = "Slicer"
    /\ n_threads = 1
    /\ Len(queue) = 2
    /\ pc[1] = "exec"

\* C13: with since >= until, TwitterSlicer.search does not return normally.
C13_BadRangeFailsFast ==
    (cls = "Slicer" /\ since >= until) => pc[0] # "returned"

\* the stream items of a fragment that carry a data-item-id, in order
IdNodes(h) == SelectSeq(h, LAMBDA li : li.item_id # NoId)
\* their data-item-ids
ItemIds(h) == [k \in 1..Len(IdNodes(h)) |-> IdNodes(h)[k].item_id]

\* C14: parse_tweets never raises: whatever state the optional parts of the
\* stream items are in, the call returns, with one record for every item that
\* has a data-item-id.
C14_ParseNeverRaises ==
    xpc # "call" =>
        /\ xpc = "returned"
        /\ extracted.exc = "none"
        /\ Len(extracted.tweets) = Len(IdNodes(fragment))

\* C15: a call of parse_tweets ends with exactly one record per stream item
\* that carries a data-item-id, in the items' order, tweet_id being that
\* attribute; items without it give no record, and a fragment without stream
\* items gives the empty list.
C15_OneRecordPerIdNode ==
    xpc # "call" =>
        /\ xpc = "returned"
        /\ TweetIds(extracted.tweets) = ItemIds(fragment)

\* The part of C15 that is about the calls that return.
ReturnedRecordsAreIdNodes ==
    xpc = "returned" => TweetIds(extracted.tweets) = ItemIds(fragment)

\* C18: in every record parse_tweets returns, favorites is the count of the
\* item's favorite count span when the item has one and 0 when it has none,
\* whether or not it has a retweet count span; retweets likewise follows the
\* retweet count span alone.
C18_FavoritesFromFavoriteSpan ==
    xpc = "returned" =>
        \A k \in 1..Len(extracted.tweets) :
            LET li == IdNodes(fragment)[k]
                tweet == extracted.tweets[k]
            IN  /\ li.favorite = "ok" => tweet.favorites = FavoriteStat
                /\ li.favorite = "absent" => tweet.favorites = 0
                /\ li.retweet = "ok" => tweet.retweets = RetweetStat
                /\ li.retweet = "absent" => tweet.retweets = 0

\* C16: a first page with exactly one record, for which the sink returned
\* True, is not special-cased: it is parsed and passed to the sink once, and
\* the next thing after the sink call is the rate_delay sleep before the fetch
\* with the cursor TWEET-<id>-<id> (no loop iteration on the same response).
C16_SingleRecordPageAdvances ==
    \A t \in Threads :
        (Running(t) /\ nFetched[t] = 1 /\ Len(RecordsOf(response[t])) = 1
            /\ continue_search[t]) =>
            /\ iter[t] <= 1
            /\ forwards[t] <= 1
            /\ (forwards[t] = 1 => pc[t] \in {"tail", "rate"})
            /\ (pc[t] = "rate" /\ response[t].min_position = NoCursor =>
                    url[t].max_position = <<"TWEET", anchor[t], anchor[t]>>)

\* the cursor C17 expects after the response the thread holds
ExpectedCursor(t) ==
    IF response[t].min_position # NoCursor
    THEN response[t].min_position
    ELSE <<"TWEET", RecordsOf(response[t])[Len(RecordsOf(response[t]))].tweet_id, anchor[t]>>

\* C17: the first fetch carries no cursor; every later fetch carries the
\* min_position of the response before it when that has one, and otherwise
\* TWEET-<id of the last record of that page>-<id of the first record of the
\* first page>; min_tweet, once set, is the first record of the first page
\* with records for the rest of the run.
C17_CursorOfNextFetch ==
    \A t \in Threads :
        Running(t) =>
            /\ url[t].f = "tweets" /\ url[t].q = query[t]
            /\ (nFetched[t] = 0 => url[t].max_position = NoCursor)
            /\ (min_tweet[t] # NoTweet => min_tweet[t].tweet_id = anchor[t])
            /\ (pc[t] \in {"save", "tail", "rate"} => min_tweet[t] # NoTweet)
            /\ (pc[t] \in {"rate", "exec", "except"} /\ nFetched[t] >= 1 =>
                    url[t].max_position = ExpectedCursor(t))

\* C17 happens: the third fetch is being made with a cursor synthesized from
\* the last record of the second page and the first record of the first.
C17_Witness ==
    /\ pc[0] = "exec"
    /\ nFetched[0] = 2
    /\ response[0].min_position = NoCursor
    /\ url[0].max_position = <<"TWEET", 2, 1>>
    /\ TweetIds(RecordsOf(response[0])) = <<2>>

\* C19: with max_tweets = N the counter never exceeds N; the last call of
\* save_tweets returned False exactly when the counter has reached N, and
\* from then on the run is never about to call save_tweets again.
C19_CounterStopsAtMax ==
    (cls = "Impl" /\ max_tweets # NoMax) =>
        /\ counter <= max_tweets
        /\ (nSink[0] > 0 => (lastSink[0].ret = FALSE <=> counter = max_tweets))
        /\ (Running(0) => (continue_search[0] = FALSE <=> counter = max_tweets))
        /\ (counter = max_tweets => pc[0] # "save")

\* C19 happens: the first page has two records, the limit of 1 is reached on
\* the first of them, and the run has ended, after another page was fetched,
\* with that one call of save_tweets.
C19_Witness ==
    /\ max_tweets = 1
    /\ counter = 1
    /\ nSink[0] = 1
    /\ Len(lastSink[0].ids) = 2
    /\ lastSink[0].ret = FALSE
    /\ nFetched[0] = 2
    /\ Len(RecordsOf(response[0])) > 0
    /\ pc[0] = "done"

\* C20: a sub-query whose perform_search raised is confined: the caller's
\* thread never raises, the worker that ran it can always go back to the
\* queue, the pool is never stuck before search has returned, and when search
\* has returned every submitted sub-query has ended.
C20_FailureConfined ==
    cls = "Slicer" =>
        /\ pc[0] # "raised" /\ exc[0] = "none"
        /\ \A w \in Workers : pc[w] = "raised" => ENABLED WorkerFinish(w)
        /\ (pc[0] # "returned" => ENABLED SlicerNext)
        /\ (pc[0] = "returned" => \A k \in 1..Len(runs) : runs[k].ends = 1)

\* C20 happens: in a pool of one thread the first sub-query raised, the
\* same worker then ran the second to its normal end, and search returned.
C20_Witness ==
    /\ cls = "Slicer"
    /\ pc[0] = "returned"
    /\ n_threads = 1
    /\ Len(runs) >= 2
    /\ runs[1].raised = 1
    /\ runs[2].ends = 1 /\ runs[2].raised = 0
    /\ passed > 0

====
